---------------------------- MODULE Spec2Model ----------------------------
(***************************************************************************)
(* Model of agent_core/task_runner.py: TaskRunner, a cooperative (asyncio) *)
(* task scheduler.                                                         *)
(*                                                                         *)
(* Python objects are modelled by identity: `tasks` is the heap of Task    *)
(* objects in creation order, and the three containers hold indexes into   *)
(* it, so two Task objects with the same task_id stay distinct objects.    *)
(* Optional values are sequences of strings: None is <<>>.                 *)
(*                                                                         *)
(* One TLA+ step is one run of a coroutine between two suspension points   *)
(* (asyncio never preempts): a synchronous handler or callback runs inside *)
(* the step that calls it, an asynchronous one suspends the coroutine and  *)
(* delivers its outcome in a later step.                                   *)
(***************************************************************************)
EXTENDS Naturals, Integers, Sequences, FiniteSets, TLC

\* ------------------------------------------------------------------ bounds
MaxTasks == 2                 \* Task objects created by add_task in one run
max_concurrent_tasks == 1     \* TaskRunner(max_concurrent_tasks = K)

\* ------------------------------------------------------------------ inputs
TaskIds == {"t1", "t2"}
TaskTypes == {"work", "mystery"}
RegisteredTypes == {"work"}   \* "mystery" never gets a handler
Payloads == {<<"p1">>, <<"p2">>}

None == <<>>

\* Callables handed to register_task_handler / add_task(callback=...).
\* async: asyncio.iscoroutinefunction(callable); raises: it ends by raising
\* an Exception, otherwise it returns.
Callables ==
    [ echo     |-> [async |-> FALSE, raises |-> FALSE],
      aecho    |-> [async |-> TRUE,  raises |-> FALSE],
      boom     |-> [async |-> FALSE, raises |-> TRUE],
      aboom    |-> [async |-> TRUE,  raises |-> TRUE] ]

Handlers == {"echo", "aecho", "boom", "aboom"}
Callbacks == {"echo", "boom", "aecho", "aboom"}

VARIABLES
    tasks,            \* heap of Task objects, in creation order
    task_queue,       \* self.task_queue: list of Task (object indexes)
    running_tasks,    \* self.running_tasks: task_id -> Task
    completed_tasks,  \* self.completed_tasks: task_id -> Task
    task_handlers,    \* self.task_handlers: task_type -> callable
    _running,       \* self._running
    run_pc,           \* position of the run() coroutine
    spawned,          \* execute_task coroutines created, not yet started
    pc,               \* position of each Task's execute_task coroutine
    handler,          \* execute_task's local `handler` (line 98)
    callback_calls,   \* how often each Task's callback has been invoked
    handler_at_add    \* history, where kept: the handler registered when add_task ran

vars == <<tasks, task_queue, running_tasks, completed_tasks, task_handlers,
          _running, run_pc, spawned, pc, handler, callback_calls,
          handler_at_add>>

\* agent_core/memory_link.py: one MemoryLink and the clock it reads.
VARIABLES
    memories,         \* self.memories: key -> MemoryEntry, in insertion order
    categories,       \* self.categories: category -> list of keys
    max_entries,      \* self.max_entries
    now,              \* datetime.now(), in seconds
    ret               \* the last call on the MemoryLink and what it returned

mvars == <<memories, categories, max_entries, now, ret>>

\* agent_core/memory_link.py: one MemoryManager and the MemoryLink objects it
\* has created.  An object is named by its position in `links`; an object
\* stays there after the manager has dropped it, as a caller may still hold it.
VARIABLES
    agent_memories,   \* self.agent_memories: agent_id -> MemoryLink object
    links,            \* every MemoryLink object created so far
    got               \* the last call on the manager and what it returned

gvars == <<agent_memories, links, got>>

\* ------------------------------------------------------------ dictionaries
DictSet(d, k, v) == [x \in (DOMAIN d) \cup {k} |-> IF x = k THEN v ELSE d[x]]
DictDel(d, k) == [x \in (DOMAIN d) \ {k} |-> d[x]]
EmptyDict == [x \in {} |-> 0]

\* ------------------------------------------------------------------- Task
NewTask(task_id, task_type, payload, callback) ==
    [ task_id      |-> task_id,
      task_type    |-> task_type,
      payload      |-> payload,
      callback     |-> callback,
      status       |-> "PENDING",
      started_at   |-> FALSE,
      completed_at |-> FALSE,
      result       |-> None,
      error        |-> None ]

\* ------------------------------------------------------------- TaskRunner
Init ==
    /\ tasks = <<>>
    /\ task_queue = <<>>
    /\ running_tasks = EmptyDict
    /\ completed_tasks = EmptyDict
    /\ task_handlers = EmptyDict
    /\ _running = FALSE
    /\ run_pc = "idle"
    /\ spawned = <<>>
    /\ pc = <<>>
    /\ handler = <<>>
    /\ callback_calls = <<>>
    /\ handler_at_add = <<>>

\* Lines 52-55.
register_task_handler(task_type, h) ==
    /\ UNCHANGED <<mvars, gvars, handler_at_add>>
    /\ task_handlers' = DictSet(task_handlers, task_type, h)
    /\ UNCHANGED <<tasks, task_queue, running_tasks, completed_tasks,
                   _running, run_pc, spawned, pc, handler, callback_calls>>

add_task(task_id, task_type, payload, callback) ==
    /\ UNCHANGED <<mvars, gvars>>
    /\ Len(tasks) < MaxTasks
    /\ tasks' = Append(tasks, NewTask(task_id, task_type, payload, callback))
    /\ task_queue' = Append(task_queue, Len(tasks) + 1)
    /\ pc' = Append(pc, "none")
    /\ handler' = Append(handler, None)
    /\ callback_calls' = Append(callback_calls, 0)
    /\ UNCHANGED <<running_tasks, completed_tasks, task_handlers,
                   _running, run_pc, spawned>>

get_task_status(task_id) ==
    IF task_id \in DOMAIN running_tasks
    THEN <<tasks[running_tasks[task_id]].status>>
    ELSE IF task_id \in DOMAIN completed_tasks
    THEN <<tasks[completed_tasks[task_id]].status>>
    ELSE LET hits == {n \in 1..Len(task_queue) :
                          tasks[task_queue[n]].task_id = task_id}
         IN IF hits # {}
            THEN <<tasks[task_queue[CHOOSE n \in hits :
                                      \A m \in hits : n <= m]].status>>
            ELSE None

get_task_result(task_id) ==
    IF task_id \in DOMAIN completed_tasks
    THEN tasks[completed_tasks[task_id]].result
    ELSE None

get_queue_status ==
    [ queued    |-> Len(task_queue),
      running   |-> Cardinality(DOMAIN running_tasks),
      completed |-> Cardinality(DOMAIN completed_tasks) ]


\* ----------------------------------------------------------- execute_task
\* What a callable does once it has run to its end on `arg`: a handler
\* returns its payload unchanged, a raising one raises Exception(name).
Outcome(callable, arg) ==
    IF Callables[callable].raises
    THEN [kind |-> "raise", error |-> <<callable>>, value |-> None]
    ELSE [kind |-> "return", error |-> None, value |-> arg]

\* Line 103: the default result of a task type without handler.
NoHandlerResult(task) ==
    <<"No handler for", task.task_type>> \o task.payload

\* Lines 91-92.
MarkRunning(task) ==
    [task EXCEPT !.status = "RUNNING", !.started_at = TRUE]

\* A completion that forgets to store the handler's value.
MarkCompleted_DropResult(task, value) ==
    [task EXCEPT !.status = "COMPLETED", !.completed_at = TRUE]

\* Lines 99/103 and 105-106: the handler's value is stored, the task completes.
MarkCompleted(task, value) ==
    [task EXCEPT !.result = value, !.status = "COMPLETED",
                 !.completed_at = TRUE]

\* An except clause that forgets to stamp completed_at.
MarkFailed_NoStamp(task, error) ==
    [task EXCEPT !.status = "FAILED", !.error = error]

\* Lines 114-117: the except clause.
MarkFailed(task, error) ==
    [task EXCEPT !.status = "FAILED", !.error = error, !.completed_at = TRUE]

\* A finally clause that writes a failed task's error on every other task.
Finally_ErrorOnAll(i, task, running) ==
    /\ tasks' = [j \in DOMAIN tasks |->
                    IF j = i THEN task
                    ELSE IF task.status = "FAILED"
                    THEN [tasks[j] EXCEPT !.error = task.error]
                    ELSE tasks[j]]
    /\ running_tasks' = IF task.task_id \in DOMAIN running
                        THEN DictDel(running, task.task_id)
                        ELSE running
    /\ completed_tasks' = DictSet(completed_tasks, task.task_id, i)
    /\ pc' = [pc EXCEPT ![i] = "done"]

\* Lines 120-124: the finally clause ends the coroutine.
Finally(i, task, running) ==
    /\ tasks' = [tasks EXCEPT ![i] = task]
    /\ running_tasks' = IF task.task_id \in DOMAIN running
                        THEN DictDel(running, task.task_id)
                        ELSE running
    /\ completed_tasks' = DictSet(completed_tasks, task.task_id, i)
    /\ pc' = [pc EXCEPT ![i] = "done"]

\* Line 110 onwards, once the callback has run to its end.
AfterCallback(i, task, running, outcome) ==
    IF outcome.kind = "raise"
    THEN Finally(i, MarkFailed(task, outcome.error), running)
    ELSE Finally(i, task, running)

\* Lines 99-110, once the handler (or the default branch) has produced its
\* outcome: store the result and complete, then call the callback; a raise
\* goes to the except clause.
AfterHandler(i, task, running, outcome) ==
    IF outcome.kind = "raise"
    THEN /\ Finally(i, MarkFailed(task, outcome.error), running)
         /\ UNCHANGED callback_calls
    ELSE LET done == MarkCompleted(task, outcome.value)
         IN IF done.callback = None
            THEN /\ Finally(i, done, running)
                 /\ UNCHANGED callback_calls
            ELSE /\ callback_calls' = [callback_calls EXCEPT ![i] = @ + 1]
                 /\ IF Callables[done.callback[1]].async
                    THEN /\ tasks' = [tasks EXCEPT ![i] = done]
                         /\ running_tasks' = running
                         /\ pc' = [pc EXCEPT ![i] = "callback"]
                         /\ UNCHANGED completed_tasks
                    ELSE AfterCallback(i, done, running,
                                       Outcome(done.callback[1], done.result))

\* An execute_task that applies the handler its type had when add_task ran.
ExecuteTaskStart_HandlerAtAdd ==
    /\ UNCHANGED <<mvars, gvars, handler_at_add>>
    /\ spawned # <<>>
    /\ LET i == Head(spawned)
           task == MarkRunning(tasks[i])
           running == DictSet(running_tasks, task.task_id, i)
       IN /\ spawned' = Tail(spawned)
          /\ IF handler_at_add[i] # None
             THEN LET h == handler_at_add[i][1]
                  IN /\ handler' = [handler EXCEPT ![i] = <<h>>]
                     /\ IF Callables[h].async
                        THEN /\ tasks' = [tasks EXCEPT ![i] = task]
                             /\ running_tasks' = running
                             /\ pc' = [pc EXCEPT ![i] = "handler"]
                             /\ UNCHANGED <<completed_tasks, callback_calls>>
                        ELSE AfterHandler(i, task, running,
                                          Outcome(h, task.payload))
             ELSE /\ AfterHandler(i, task, running,
                                  [kind |-> "return", error |-> None,
                                   value |-> NoHandlerResult(task)])
                  /\ UNCHANGED handler
    /\ UNCHANGED <<task_queue, task_handlers, _running, run_pc>>

\* The first run of an execute_task coroutine: the event loop starts the
\* coroutines made by asyncio.create_task in the order of their creation.
ExecuteTaskStart ==
    /\ UNCHANGED <<mvars, gvars, handler_at_add>>
    /\ spawned # <<>>
    /\ LET i == Head(spawned)
           task == MarkRunning(tasks[i])
           running == DictSet(running_tasks, task.task_id, i)
       IN /\ spawned' = Tail(spawned)
          /\ IF task.task_type \in DOMAIN task_handlers
             THEN LET h == task_handlers[task.task_type]
                  IN /\ handler' = [handler EXCEPT ![i] = <<h>>]
                     /\ IF Callables[h].async
                        THEN /\ tasks' = [tasks EXCEPT ![i] = task]
                             /\ running_tasks' = running
                             /\ pc' = [pc EXCEPT ![i] = "handler"]
                             /\ UNCHANGED <<completed_tasks, callback_calls>>
                        ELSE AfterHandler(i, task, running,
                                          Outcome(h, task.payload))
             ELSE /\ AfterHandler(i, task, running,
                                  [kind |-> "return", error |-> None,
                                   value |-> NoHandlerResult(task)])
                  /\ UNCHANGED handler
    /\ UNCHANGED <<task_queue, task_handlers, _running, run_pc>>

\* An asynchronous handler finishes: execute_task resumes at line 99.
HandlerDone(i) ==
    /\ UNCHANGED <<mvars, gvars, handler_at_add>>
    /\ pc[i] = "handler"
    /\ AfterHandler(i, tasks[i], running_tasks,
                    Outcome(handler[i][1], tasks[i].payload))
    /\ UNCHANGED <<task_queue, task_handlers, _running, run_pc, spawned,
                   handler>>

\* An asynchronous callback finishes: execute_task resumes at line 110.
CallbackDone(i) ==
    /\ UNCHANGED <<mvars, gvars, handler_at_add>>
    /\ pc[i] = "callback"
    /\ AfterCallback(i, tasks[i], running_tasks,
                     Outcome(tasks[i].callback[1], tasks[i].result))
    /\ UNCHANGED <<task_queue, task_handlers, _running, run_pc, spawned,
                   handler, callback_calls>>

\* -------------------------------------------------------------------- run
\* An inner loop that takes the newest task, as task_queue.pop() would.
RECURSIVE Dispatch_PopLast(_, _)
Dispatch_PopLast(queue, made) ==
    IF Cardinality(DOMAIN running_tasks) < max_concurrent_tasks
       /\ queue # <<>>
    THEN Dispatch_PopLast(SubSeq(queue, 1, Len(queue) - 1),
                          Append(made, queue[Len(queue)]))
    ELSE <<queue, made>>

\* Lines 140-143: the inner while loop. It has no suspension point, so it is
\* one step; running_tasks is filled by execute_task only, which does not run
\* before the loop yields. Returns <<task_queue, spawned>>.
RECURSIVE Dispatch(_, _)
Dispatch(queue, made) ==
    IF Cardinality(DOMAIN running_tasks) < max_concurrent_tasks
       /\ queue # <<>>
    THEN Dispatch(Tail(queue), Append(made, Head(queue)))
    ELSE <<queue, made>>

\* One pass of the outer loop body, up to the sleep at line 146.
LoopBody ==
    LET d == Dispatch(task_queue, spawned)
    IN /\ task_queue' = d[1]
       /\ spawned' = d[2]
       /\ pc' = [i \in DOMAIN pc |->
                    IF i \in {task_queue[n] : n \in 1..Len(task_queue)}
                       /\ i \notin {d[1][n] : n \in 1..Len(d[1])}
                    THEN "ready" ELSE pc[i]]

\* run() is called: lines 135-146 up to the first sleep.
RunStart ==
    /\ UNCHANGED <<mvars, gvars, handler_at_add>>
    /\ run_pc \in {"idle", "exited"}
    /\ _running' = TRUE
    /\ run_pc' = "sleeping"
    /\ LoopBody
    /\ UNCHANGED <<tasks, running_tasks, completed_tasks, task_handlers,
                   handler, callback_calls>>

\* A loop that does not look at _running when it wakes.
RunWake_IgnoreStop ==
    /\ UNCHANGED <<mvars, gvars, handler_at_add>>
    /\ run_pc = "sleeping"
    /\ spawned = <<>>
    /\ LoopBody
    /\ UNCHANGED run_pc
    /\ UNCHANGED <<tasks, running_tasks, completed_tasks, task_handlers,
                   _running, handler, callback_calls>>

\* The sleep at line 146 ends. Coroutines made before the sleep have had
\* their first run by then (they were ready before the timer fired).
RunWake ==
    /\ UNCHANGED <<mvars, gvars, handler_at_add>>
    /\ run_pc = "sleeping"
    /\ spawned = <<>>
    /\ IF _running
       THEN /\ LoopBody
            /\ UNCHANGED run_pc
       ELSE /\ run_pc' = "exited"
            /\ UNCHANGED <<task_queue, spawned, pc>>
    /\ UNCHANGED <<tasks, running_tasks, completed_tasks, task_handlers,
                   _running, handler, callback_calls>>

stop ==
    /\ UNCHANGED <<mvars, gvars, handler_at_add>>
    /\ _running' = FALSE
    /\ UNCHANGED <<tasks, task_queue, running_tasks, completed_tasks,
                   task_handlers, run_pc, spawned, pc, handler,
                   callback_calls>>

\* ============================================================ MemoryLink
\* agent_core/memory_link.py. Strings that search() looks into (keys,
\* values, queries) are sequences of characters. A call on the MemoryLink
\* is one step: the store is synchronous and single-threaded, and the clock
\* does not move during a call.

MaxTime == 1                  \* the clock runs from 0 to MaxTime
MaxAccess == 1                \* reads stop once an access_count reached it
MaxEntriesBound == 2          \* MemoryLink(max_entries = 1..MaxEntriesBound)
MaxTTL == 2                   \* ttl of the lone entries retrieve is tried on

_cleanup_threshold_x10 == 8   \* self._cleanup_threshold = 0.8

Keys == {<<"a">>, <<"B">>}
Queries == {<<"b">>, <<"C">>}
CategoryNames == {"c1", "c2"}
TTLs == {None, <<0>>}
\* value and metadata of a store or update call; a metadata dict is the set
\* of its items.
StoreContents == {[value |-> <<"A", "b">>, metadata |-> {}]}
UpdateContents == {[value |-> <<"c">>, metadata |-> {"m"}]}

Some(x) == <<x>>

RECURSIVE Lower(_)
Lower(str) ==
    IF str = <<>> THEN <<>>
    ELSE LET ch == Head(str)
             lo == CASE ch = "A" -> "a" [] ch = "B" -> "b" [] ch = "C" -> "c"
                     [] OTHER -> ch
         IN <<lo>> \o Lower(Tail(str))

\* Python's `sub in text` on strings.
Contains(sub, text) ==
    \E off \in 0..Len(text) :
        /\ off + Len(sub) <= Len(text)
        /\ SubSeq(text, off + 1, off + Len(sub)) = sub

\* ------------------------------------------- dict in insertion order
HasKey(mem, key) == \E n \in DOMAIN mem : mem[n].key = key
IndexOf(mem, key) == CHOOSE n \in DOMAIN mem : mem[n].key = key
EntryOf(mem, key) == mem[IndexOf(mem, key)]
KeysOf(mem) == [n \in DOMAIN mem |-> mem[n].key]

\* self.memories[key] = entry
PutEntry(mem, entry) ==
    IF HasKey(mem, entry.key)
    THEN [mem EXCEPT ![IndexOf(mem, entry.key)] = entry]
    ELSE Append(mem, entry)

\* del self.memories[key]
DelEntry(mem, key) ==
    LET Keep(e) == e.key # key IN SelectSeq(mem, Keep)

\* list.remove(x): the first occurrence goes.
ListRemove(list, x) ==
    IF \E n \in DOMAIN list : list[n] = x
    THEN LET at == CHOOSE n \in DOMAIN list :
                       list[n] = x /\ \A m \in 1..(n - 1) : list[m] # x
         IN SubSeq(list, 1, at - 1) \o SubSeq(list, at + 1, Len(list))
    ELSE list

InList(list, x) == \E n \in DOMAIN list : list[n] = x

\* ------------------------------------------------------------ MemoryEntry
NewEntry(key, value, metadata, ttl, t) ==
    [ key          |-> key,
      value        |-> value,
      metadata     |-> metadata,
      created_at   |-> t,
      access_count |-> 0,
      ttl          |-> ttl ]

\* An entry that counts as expired at created_at + ttl already.
is_expired_AtDeadline(entry, t) ==
    IF entry.ttl = None THEN FALSE
    ELSE t >= entry.created_at + entry.ttl[1]

\* Lines 28-32.
is_expired(entry, t) ==
    IF entry.ttl = None THEN FALSE
    ELSE t > entry.created_at + entry.ttl[1]

access(entry) == [entry EXCEPT !.access_count = @ + 1]

\* A snapshot that leaves the metadata out.
to_dict_NoMetadata(entry, t) ==
    [ key          |-> Some(entry.key),
      value        |-> Some(entry.value),
      metadata     |-> None,
      created_at   |-> entry.created_at,
      access_count |-> entry.access_count,
      ttl          |-> entry.ttl,
      expired      |-> is_expired(entry, t) ]

\* Lines 40-51.
to_dict(entry, t) ==
    [ key          |-> Some(entry.key),
      value        |-> Some(entry.value),
      metadata     |-> Some(entry.metadata),
      created_at   |-> entry.created_at,
      access_count |-> entry.access_count,
      ttl          |-> entry.ttl,
      expired      |-> is_expired(entry, t) ]

\* ------------------------------------------------------------- MemoryLink
\* The operations are functions of the store (mem, cats) and the clock t,
\* giving the store after the call and the value returned: [m, c, r].
Raised(what) == [raised |-> what]

\* A removal that leaves the category lists as they are.
_remove_memory_KeepLists(mem, cats, key) ==
    [ m |-> IF HasKey(mem, key) THEN DelEntry(mem, key) ELSE mem,
      c |-> cats ]

\* Lines 224-232.
_remove_memory(mem, cats, key) ==
    [ m |-> IF HasKey(mem, key) THEN DelEntry(mem, key) ELSE mem,
      c |-> [cat \in DOMAIN cats |-> ListRemove(cats[cat], key)] ]

RECURSIVE RemoveAll(_, _, _)
RemoveAll(mem, cats, keys) ==
    IF keys = <<>> THEN [m |-> mem, c |-> cats]
    ELSE LET one == _remove_memory(mem, cats, Head(keys))
         IN RemoveAll(one.m, one.c, Tail(keys))

_cleanup_expired(mem, cats, t) ==
    LET Expired(e) == is_expired(e, t)
        expired_keys == KeysOf(SelectSeq(mem, Expired))
    IN RemoveAll(mem, cats, expired_keys)

\* A store that sweeps only above the threshold, not at it.
store_SweepAbove(mem, cats, maxe, t, key, value, category, metadata, ttl) ==
    LET swept == IF 10 * Len(mem) > maxe * _cleanup_threshold_x10
                 THEN _cleanup_expired(mem, cats, t)
                 ELSE [m |-> mem, c |-> cats]
        entry == NewEntry(key, value, metadata, ttl, t)
        cat == IF category = None THEN "" ELSE category[1]
        list == IF cat \in DOMAIN swept.c THEN swept.c[cat] ELSE <<>>
    IN [ m |-> PutEntry(swept.m, entry),
         c |-> IF category = None THEN swept.c
               ELSE DictSet(swept.c, cat,
                            IF InList(list, key) THEN list
                            ELSE Append(list, key)),
         r |-> None ]

\* A store that never sweeps the expired entries.
store_NeverSweeps(mem, cats, maxe, t, key, value, category, metadata, ttl) ==
    LET entry == NewEntry(key, value, metadata, ttl, t)
        cat == IF category = None THEN "" ELSE category[1]
        list == IF cat \in DOMAIN cats THEN cats[cat] ELSE <<>>
    IN [ m |-> PutEntry(mem, entry),
         c |-> IF category = None THEN cats
               ELSE DictSet(cats, cat,
                            IF InList(list, key) THEN list
                            ELSE Append(list, key)),
         r |-> None ]

\* Lines 64-81.
store(mem, cats, maxe, t, key, value, category, metadata, ttl) ==
    LET swept == IF 10 * Len(mem) >= maxe * _cleanup_threshold_x10
                 THEN _cleanup_expired(mem, cats, t)
                 ELSE [m |-> mem, c |-> cats]
        entry == NewEntry(key, value, metadata, ttl, t)
        cat == IF category = None THEN "" ELSE category[1]
        list == IF cat \in DOMAIN swept.c THEN swept.c[cat] ELSE <<>>
    IN [ m |-> PutEntry(swept.m, entry),
         c |-> IF category = None THEN swept.c
               ELSE DictSet(swept.c, cat,
                            IF InList(list, key) THEN list
                            ELSE Append(list, key)),
         r |-> None ]

retrieve(mem, cats, t, key) ==
    IF ~HasKey(mem, key) THEN [m |-> mem, c |-> cats, r |-> None]
    ELSE LET entry == EntryOf(mem, key)
         IN IF is_expired(entry, t)
            THEN LET gone == _remove_memory(mem, cats, key)
                 IN [m |-> gone.m, c |-> gone.c, r |-> None]
            ELSE [m |-> PutEntry(mem, access(entry)), c |-> cats,
                  r |-> Some(entry.value)]

\* Lines 101-104: the loop over a copy of the category's key list.
RECURSIVE RetrieveEach(_, _, _, _, _)
RetrieveEach(mem, cats, t, keys, result) ==
    IF keys = <<>> THEN [m |-> mem, c |-> cats, r |-> result]
    ELSE LET one == retrieve(mem, cats, t, Head(keys))
         IN RetrieveEach(one.m, one.c, t, Tail(keys),
                         IF one.r # None
                         THEN result \cup {<<Head(keys), one.r[1]>>}
                         ELSE result)

retrieve_by_category(mem, cats, t, category) ==
    IF category \notin DOMAIN cats
    THEN [m |-> mem, c |-> cats, r |-> {}]
    ELSE RetrieveEach(mem, cats, t, cats[category], {})

\* Lines 122-133: does the live entry match the query?
Matches(query, entry) ==
    \/ Contains(Lower(query), Lower(entry.key))
    \/ Contains(Lower(query), Lower(entry.value))

\* Lines 113-133 when search_keys is the category's key list itself: the
\* list iterator reads position n of the list as it is at that moment, so a
\* removal made by _remove_memory shifts the rest of the list under it.
RECURSIVE SearchList(_, _, _, _, _, _, _)
SearchList(mem, cats, t, query, cat, n, results) ==
    IF n > Len(cats[cat])
    THEN [m |-> mem, c |-> cats, r |-> [raised |-> FALSE, map |-> results]]
    ELSE LET key == cats[cat][n]
         IN IF ~HasKey(mem, key)
            THEN SearchList(mem, cats, t, query, cat, n + 1, results)
            ELSE LET entry == EntryOf(mem, key)
                 IN IF is_expired(entry, t)
                    THEN LET gone == _remove_memory(mem, cats, key)
                         IN SearchList(gone.m, gone.c, t, query, cat, n + 1,
                                       results)
                    ELSE IF Matches(query, entry)
                    THEN SearchList(PutEntry(mem, access(entry)), cats, t,
                                    query, cat, n + 1,
                                    results \cup {<<key, entry.value>>})
                    ELSE SearchList(mem, cats, t, query, cat, n + 1, results)

\* Lines 113-133 when search_keys is self.memories.keys(): a view of the
\* dict. After _remove_memory has deleted from the dict, the iterator's next
\* step raises RuntimeError (dictionary changed size during iteration),
\* which search does not catch.
RECURSIVE SearchDict(_, _, _, _, _, _)
SearchDict(mem, cats, t, query, n, results) ==
    IF n > Len(mem)
    THEN [m |-> mem, c |-> cats, r |-> [raised |-> FALSE, map |-> results]]
    ELSE LET entry == mem[n]
         IN IF is_expired(entry, t)
            THEN LET gone == _remove_memory(mem, cats, entry.key)
                 IN [m |-> gone.m, c |-> gone.c,
                     r |-> [raised |-> TRUE, map |-> {}]]
            ELSE IF Matches(query, entry)
            THEN SearchDict(PutEntry(mem, access(entry)), cats, t, query,
                            n + 1, results \cup {<<entry.key, entry.value>>})
            ELSE SearchDict(mem, cats, t, query, n + 1, results)

\* Line 111: self.categories.get(category, self.memories.keys()) if category
\* else self.memories.keys().
search(mem, cats, t, query, category) ==
    IF category # None /\ category[1] \in DOMAIN cats
    THEN SearchList(mem, cats, t, query, category[1], 1, {})
    ELSE SearchDict(mem, cats, t, query, 1, {})

\* An update that reports an expired entry and leaves it in the store.
update_KeepsExpired(mem, cats, t, key, value, metadata) ==
    IF ~HasKey(mem, key) THEN [m |-> mem, c |-> cats, r |-> FALSE]
    ELSE LET entry == EntryOf(mem, key)
         IN IF is_expired(entry, t)
            THEN [m |-> mem, c |-> cats, r |-> FALSE]
            ELSE [m |-> PutEntry(mem,
                        [entry EXCEPT !.value = value,
                                      !.metadata = @ \cup metadata]),
                  c |-> cats, r |-> TRUE]

\* An update that stamps the entry anew.
update_RestartsLifetime(mem, cats, t, key, value, metadata) ==
    IF ~HasKey(mem, key) THEN [m |-> mem, c |-> cats, r |-> FALSE]
    ELSE LET entry == EntryOf(mem, key)
         IN IF is_expired(entry, t)
            THEN LET gone == _remove_memory(mem, cats, key)
                 IN [m |-> gone.m, c |-> gone.c, r |-> FALSE]
            ELSE [m |-> PutEntry(mem,
                        [entry EXCEPT !.value = value,
                                      !.metadata = @ \cup metadata,
                                      !.created_at = t]),
                  c |-> cats, r |-> TRUE]

\* Lines 137-153.
update(mem, cats, t, key, value, metadata) ==
    IF ~HasKey(mem, key) THEN [m |-> mem, c |-> cats, r |-> FALSE]
    ELSE LET entry == EntryOf(mem, key)
         IN IF is_expired(entry, t)
            THEN LET gone == _remove_memory(mem, cats, key)
                 IN [m |-> gone.m, c |-> gone.c, r |-> FALSE]
            ELSE [m |-> PutEntry(mem,
                        [entry EXCEPT !.value = value,
                                      !.metadata = @ \cup metadata]),
                  c |-> cats, r |-> TRUE]

\* A delete that leaves the category lists as they are.
delete_KeepLists(mem, cats, key) ==
    IF HasKey(mem, key)
    THEN [m |-> DelEntry(mem, key), c |-> cats, r |-> TRUE]
    ELSE [m |-> mem, c |-> cats, r |-> FALSE]

\* Lines 155-160.
delete(mem, cats, key) ==
    IF HasKey(mem, key)
    THEN LET gone == _remove_memory(mem, cats, key)
         IN [m |-> gone.m, c |-> gone.c, r |-> TRUE]
    ELSE [m |-> mem, c |-> cats, r |-> FALSE]

\* Lines 167-170: the loop over a copy of the category's key list.
RECURSIVE DeleteEach(_, _, _, _)
DeleteEach(mem, cats, keys, cleared_count) ==
    IF keys = <<>> THEN [m |-> mem, c |-> cats, r |-> cleared_count]
    ELSE LET one == delete(mem, cats, Head(keys))
         IN DeleteEach(one.m, one.c, Tail(keys),
                       IF one.r THEN cleared_count + 1 ELSE cleared_count)

\* A clear_category that keeps the emptied category in the index.
clear_category_KeepCategory(mem, cats, category) ==
    IF category \notin DOMAIN cats
    THEN [m |-> mem, c |-> cats, r |-> 0]
    ELSE DeleteEach(mem, cats, cats[category], 0)

\* Lines 162-173.
clear_category(mem, cats, category) ==
    IF category \notin DOMAIN cats
    THEN [m |-> mem, c |-> cats, r |-> 0]
    ELSE LET each == DeleteEach(mem, cats, cats[category], 0)
         IN [m |-> each.m, c |-> DictDel(each.c, category), r |-> each.r]

\* A get_stats that leaves the expired entries out of its figures.
get_stats_LiveOnly(mem, cats, maxe, t) ==
    LET live == Cardinality({n \in DOMAIN mem : ~is_expired(mem[n], t)})
    IN [ total_memories   |-> live,
         expired_memories |-> 0,
         active_memories  |-> live,
         max_entries      |-> maxe,
         usage_percentage |-> <<live * 100, maxe>>,
         categories       |-> [cat \in DOMAIN cats |-> Len(cats[cat])] ]

\* Lines 175-190; usage_percentage is kept as the pair it divides.
get_stats(mem, cats, maxe, t) ==
    LET total_memories == Len(mem)
        expired_count ==
            Cardinality({n \in DOMAIN mem : is_expired(mem[n], t)})
    IN [ total_memories   |-> total_memories,
         expired_memories |-> expired_count,
         active_memories  |-> total_memories - expired_count,
         max_entries      |-> maxe,
         usage_percentage |-> <<total_memories * 100, maxe>>,
         categories       |-> [cat \in DOMAIN cats |-> Len(cats[cat])] ]

\* An export that snapshots expired entries too.
RECURSIVE ExportEach_WithExpired(_, _, _, _)
ExportEach_WithExpired(mem, t, keys, memories_to_export) ==
    IF keys = <<>> THEN memories_to_export
    ELSE LET key == Head(keys)
         IN ExportEach_WithExpired(mem, t, Tail(keys),
                IF HasKey(mem, key)
                THEN Append(memories_to_export,
                            to_dict(EntryOf(mem, key), t))
                ELSE memories_to_export)

\* Lines 197-201 over a list of keys.
RECURSIVE ExportEach(_, _, _, _)
ExportEach(mem, t, keys, memories_to_export) ==
    IF keys = <<>> THEN memories_to_export
    ELSE LET key == Head(keys)
         IN ExportEach(mem, t, Tail(keys),
                IF HasKey(mem, key) /\ ~is_expired(EntryOf(mem, key), t)
                THEN Append(memories_to_export,
                            to_dict(EntryOf(mem, key), t))
                ELSE memories_to_export)

\* Lines 192-203.
export_memories(mem, cats, t, category) ==
    ExportEach(mem, t,
               IF category # None /\ category[1] \in DOMAIN cats
               THEN cats[category[1]]
               ELSE KeysOf(mem),
               <<>>)

\* An import that gives up at the first record without "key" or "value".
RECURSIVE ImportEach_Aborts(_, _, _, _, _, _)
ImportEach_Aborts(mem, cats, maxe, t, memories_data, imported_count) ==
    IF memories_data = <<>>
    THEN [m |-> mem, c |-> cats, r |-> imported_count]
    ELSE LET memory_data == Head(memories_data)
         IN IF memory_data.key = None \/ memory_data.value = None
            THEN [m |-> mem, c |-> cats, r |-> imported_count]
            ELSE LET metadata == IF memory_data.metadata = None THEN {}
                                 ELSE memory_data.metadata[1]
                     one == store(mem, cats, maxe, t, memory_data.key[1],
                                  memory_data.value[1], None, metadata,
                                  memory_data.ttl)
                 IN ImportEach_Aborts(one.m, one.c, maxe, t,
                                      Tail(memories_data), imported_count + 1)

\* Lines 209-220: a record without "key" or "value" raises KeyError, which
\* is caught; "metadata" defaults to {} and "ttl" to None.
RECURSIVE ImportEach(_, _, _, _, _, _)
ImportEach(mem, cats, maxe, t, memories_data, imported_count) ==
    IF memories_data = <<>>
    THEN [m |-> mem, c |-> cats, r |-> imported_count]
    ELSE LET memory_data == Head(memories_data)
         IN IF memory_data.key = None \/ memory_data.value = None
            THEN ImportEach(mem, cats, maxe, t, Tail(memories_data),
                            imported_count)
            ELSE LET metadata == IF memory_data.metadata = None THEN {}
                                 ELSE memory_data.metadata[1]
                     one == store(mem, cats, maxe, t, memory_data.key[1],
                                  memory_data.value[1], None, metadata,
                                  memory_data.ttl)
                 IN ImportEach(one.m, one.c, maxe, t, Tail(memories_data),
                               imported_count + 1)

import_memories(mem, cats, maxe, t, memories_data) ==
    ImportEach(mem, cats, maxe, t, memories_data, 0)

\* ----------------------------------------------------- MemoryLink calls
\* MemoryLink.__init__ (lines 57-62), given max_entries.
NewMemoryLink(maxe) ==
    /\ memories = <<>>
    /\ categories = EmptyDict
    /\ max_entries = maxe
    /\ now = 0
    /\ ret = [op |-> "init", arg |-> <<>>, val |-> <<>>, removed |-> {}]

\* MemoryManager.__init__ (lines 248-249).
NewMemoryManager ==
    /\ agent_memories = EmptyDict
    /\ links = <<>>
    /\ got = [op |-> "init", agent_id |-> "", arg |-> 0, val |-> 0]

\* A category argument: None when the caller gives none.
OptionalCategories == {None} \cup {Some(c) : c \in CategoryNames}

\* The keys of a store.
KeySetOf(mem) == {mem[n].key : n \in DOMAIN mem}

\* A call has run: the store it leaves, and in `ret` the call, its main
\* argument, a summary of what it returned and the keys it took out of the
\* store.
Called(op, arg, res, val) ==
    /\ memories' = res.m
    /\ categories' = res.c
    /\ ret' = [op |-> op, arg |-> arg, val |-> val,
               removed |-> KeySetOf(memories) \ KeySetOf(res.m)]
    /\ UNCHANGED <<max_entries, now>>
    /\ UNCHANGED <<vars, gvars>>

\* A read is counted up to MaxAccess per entry.
CanCount == \A n \in DOMAIN memories : memories[n].access_count < MaxAccess

\* The keys of a key -> value mapping given as a set of pairs.
KeySet(map) == {pair[1] : pair \in map}

Store(key, value, category, metadata, ttl) ==
    LET res == store(memories, categories, max_entries, now, key, value,
                     category, metadata, ttl)
    IN Called("store", key, res, res.r)

Retrieve(key) ==
    /\ CanCount
    /\ LET res == retrieve(memories, categories, now, key)
       IN Called("retrieve", key, res, res.r)

RetrieveByCategory(category) ==
    /\ CanCount
    /\ LET res == retrieve_by_category(memories, categories, now, category)
       IN Called("retrieve_by_category", category, res, KeySet(res.r))

Search(query, category) ==
    /\ CanCount
    /\ LET res == search(memories, categories, now, query, category)
       IN Called("search", category, res,
                 [raised |-> res.r.raised, keys |-> KeySet(res.r.map)])

Update(key, value, metadata) ==
    LET res == update(memories, categories, now, key, value, metadata)
    IN Called("update", key, res, res.r)

Delete(key) ==
    LET res == delete(memories, categories, key)
    IN Called("delete", key, res, res.r)

ClearCategory(category) ==
    LET res == clear_category(memories, categories, category)
    IN Called("clear_category", category, res, res.r)

\* get_stats and export_memories leave the store as it is; what they return
\* is the operator of that name on the state.
GetStats ==
    Called("get_stats", <<>>, [m |-> memories, c |-> categories], <<>>)

ExportMemories(category) ==
    /\ category \in OptionalCategories
    /\ Called("export_memories", <<>>,
              [m |-> memories, c |-> categories], <<>>)

ImportMemories(memories_data) ==
    LET res == import_memories(memories, categories, max_entries, now,
                               memories_data)
    IN Called("import_memories", Len(memories_data), res, res.r)

\* import_memories(export_memories()) on the same MemoryLink.
ImportExported ==
    LET exported == export_memories(memories, categories, now, None)
        res == import_memories(memories, categories, max_entries, now,
                               exported)
    IN Called("import_exported", Len(exported), res, res.r)

\* Time passes between two calls.
Tick ==
    /\ now < MaxTime
    /\ now' = now + 1
    /\ UNCHANGED <<memories, categories, max_entries, ret>>
    /\ UNCHANGED <<vars, gvars>>

\* Records handed to import_memories: a field that is missing is None.
Record(key, value, metadata, ttl) ==
    [key |-> key, value |-> value, metadata |-> metadata, ttl |-> ttl]

ImportBatches ==
    { <<Record(Some(<<"a">>), Some(<<"A", "b">>), None, None)>>,
      <<Record(Some(<<"B">>), None, None, None),
        Record(Some(<<"B">>), Some(<<"c">>), Some({"m"}), <<0>>)>>,
      <<Record(Some(<<"a">>), Some(<<"c">>), Some({"m"}), <<0>>),
        Record(None, Some(<<"c">>), None, None)>> }

StoreCall ==
    \E key \in Keys, content \in StoreContents, category \in OptionalCategories,
       ttl \in TTLs :
        Store(key, content.value, category, content.metadata, ttl)

RetrieveCall == \E key \in Keys : Retrieve(key)

RetrieveByCategoryCall ==
    \E category \in CategoryNames : RetrieveByCategory(category)

SearchCall ==
    \E query \in Queries, category \in OptionalCategories :
        Search(query, category)

UpdateCall ==
    \E key \in Keys, content \in UpdateContents :
        Update(key, content.value, content.metadata)

DeleteCall == \E key \in Keys : Delete(key)

ClearCategoryCall == \E category \in CategoryNames : ClearCategory(category)

ExportMemoriesCall ==
    \E category \in OptionalCategories : ExportMemories(category)

ImportMemoriesCall ==
    \E memories_data \in ImportBatches : ImportMemories(memories_data)

MemInit ==
    /\ Init
    /\ NewMemoryManager
    /\ \E maxe \in 1..MaxEntriesBound : NewMemoryLink(maxe)

MemNext ==
    \/ StoreCall
    \/ RetrieveCall
    \/ RetrieveByCategoryCall
    \/ SearchCall
    \/ UpdateCall
    \/ DeleteCall
    \/ ClearCategoryCall
    \/ GetStats
    \/ ExportMemoriesCall
    \/ ImportMemoriesCall
    \/ ImportExported
    \/ Tick

MemSpec == MemInit /\ [][MemNext]_<<vars, mvars>>

\* ------------------------------------------------ filling a MemoryLink
\* A MemoryLink(max_entries = SweepMaxEntries) that is filled with fresh keys
\* "k1", "k2", ... while the clock runs: each store takes the next key.
SweepMaxEntries == 10         \* max_entries of the store that is filled
SweepStores == 9              \* store calls made on it
SweepTime == 2                \* its clock runs from 0 to SweepTime
SweepTTLs == {None, <<1>>}

SweepKey(n) == <<"k", n>>

\* The store calls made so far.
SweepCount == IF ret.op = "init" THEN 0 ELSE ret.arg[2]

SweepStore ==
    \E ttl \in SweepTTLs :
        /\ SweepCount < SweepStores
        /\ Store(SweepKey(SweepCount + 1), <<"c">>, None, {}, ttl)

SweepTick ==
    /\ now < SweepTime
    /\ now' = now + 1
    /\ UNCHANGED <<memories, categories, max_entries, ret>>
    /\ UNCHANGED <<vars, gvars>>

SweepInit == Init /\ NewMemoryManager /\ NewMemoryLink(SweepMaxEntries)

SweepNext == SweepStore \/ SweepTick

SweepSpec == SweepInit /\ [][SweepNext]_<<vars, mvars>>

\* ---------------------------------------------------------- MemoryManager
MaxLinks == 3
AgentIds == {"o1", "o2"}

\* MemoryLink.__init__ (lines 57-62) as an object of the manager.
MemoryLink(agent_id, maxe) ==
    [agent_id |-> agent_id, max_entries |-> maxe,
     memories |-> <<>>, categories |-> EmptyDict]

\* A get_memory_link that makes a new MemoryLink on every call.
get_memory_link_Replaces(am, ls, agent_id, maxe) ==
    [a |-> DictSet(am, agent_id, Len(ls) + 1),
     l |-> Append(ls, MemoryLink(agent_id, maxe)),
     r |-> Len(ls) + 1]

\* MemoryManager.get_memory_link (lines 251-256): the manager's mapping, the
\* objects and the object returned.
get_memory_link(am, ls, agent_id, maxe) ==
    IF agent_id \notin DOMAIN am
    THEN [a |-> DictSet(am, agent_id, Len(ls) + 1),
          l |-> Append(ls, MemoryLink(agent_id, maxe)),
          r |-> Len(ls) + 1]
    ELSE [a |-> am, l |-> ls, r |-> am[agent_id]]

\* MemoryManager.cleanup_agent_memory (lines 258-264).
cleanup_agent_memory(am, agent_id) ==
    IF agent_id \in DOMAIN am
    THEN [a |-> DictDel(am, agent_id), r |-> TRUE]
    ELSE [a |-> am, r |-> FALSE]

\* A call of get_memory_link; at most MaxLinks objects are ever made.
GetMemoryLink(agent_id, maxe) ==
    LET res == get_memory_link(agent_memories, links, agent_id, maxe)
    IN /\ Len(res.l) <= MaxLinks
       /\ agent_memories' = res.a
       /\ links' = res.l
       /\ got' = [op |-> "get_memory_link", agent_id |-> agent_id,
                  arg |-> maxe, val |-> res.r]
       /\ UNCHANGED <<vars, mvars>>

\* A call of cleanup_agent_memory.
CleanupAgentMemory(agent_id) ==
    LET res == cleanup_agent_memory(agent_memories, agent_id)
    IN /\ agent_memories' = res.a
       /\ got' = [op |-> "cleanup_agent_memory", agent_id |-> agent_id,
                  arg |-> 0, val |-> IF res.r THEN 1 ELSE 0]
       /\ UNCHANGED links
       /\ UNCHANGED <<vars, mvars>>

\* A caller stores an entry in a MemoryLink it was given earlier.
LinkStore(link, key) ==
    LET self == links[link]
        res == store(self.memories, self.categories, self.max_entries, now,
                     key, <<"v">>, None, {}, None)
    IN /\ links' = [links EXCEPT ![link] =
                        [self EXCEPT !.memories = res.m, !.categories = res.c]]
       /\ got' = [op |-> "store", agent_id |-> self.agent_id,
                  arg |-> 0, val |-> link]
       /\ UNCHANGED agent_memories
       /\ UNCHANGED <<vars, mvars>>

GetMemoryLinkCall ==
    \E agent_id \in AgentIds, maxe \in 1..MaxEntriesBound :
        GetMemoryLink(agent_id, maxe)

CleanupAgentMemoryCall == \E agent_id \in AgentIds : CleanupAgentMemory(agent_id)

LinkStoreCall == \E link \in DOMAIN links, key \in Keys : LinkStore(link, key)

ManagerInit == Init /\ NewMemoryManager /\ NewMemoryLink(MaxEntriesBound)

ManagerNext ==
    \/ GetMemoryLinkCall
    \/ CleanupAgentMemoryCall
    \/ LinkStoreCall

ManagerSpec == ManagerInit /\ [][ManagerNext]_<<vars, mvars, gvars>>

\* ---------------------------------------------------------- specification
RegisterTaskHandler ==
    \E ty \in RegisteredTypes, h \in Handlers : register_task_handler(ty, h)

AddTask ==
    \E id \in TaskIds, ty \in TaskTypes, p \in Payloads,
       cb \in {None} \cup {<<c>> : c \in Callbacks} :
        add_task(id, ty, p, cb) /\ UNCHANGED handler_at_add

HandlerReturns == \E i \in DOMAIN tasks : HandlerDone(i)

CallbackReturns == \E i \in DOMAIN tasks : CallbackDone(i)

Next ==
    \/ RegisterTaskHandler
    \/ AddTask
    \/ RunStart
    \/ RunWake
    \/ stop
    \/ ExecuteTaskStart
    \/ HandlerReturns
    \/ CallbackReturns

\* The TaskRunner alone: the MemoryLink is constructed and not called.
RunnerInit == Init /\ NewMemoryManager /\ NewMemoryLink(MaxEntriesBound)

Spec == RunnerInit /\ [][Next]_<<vars, mvars>>

\* add_task with one payload: what a task carries plays no part in when it
\* runs.
AddTaskOnePayload ==
    \E id \in TaskIds, ty \in TaskTypes,
       cb \in {None} \cup {<<c>> : c \in Callbacks} :
        add_task(id, ty, <<"p1">>, cb) /\ UNCHANGED handler_at_add

FairNext ==
    \/ RegisterTaskHandler
    \/ AddTaskOnePayload
    \/ RunStart
    \/ RunWake
    \/ stop
    \/ ExecuteTaskStart
    \/ HandlerReturns
    \/ CallbackReturns

\* The event loop runs every coroutine that is ready, the handlers and
\* callbacks of the model return, and the sleep of run() ends.
FairSpec ==
    /\ RunnerInit
    /\ [][FairNext]_<<vars, mvars>>
    /\ WF_vars(ExecuteTaskStart)
    /\ WF_vars(HandlerReturns)
    /\ WF_vars(CallbackReturns)
    /\ WF_vars(RunWake)

\* add_task, with the handler registered for the task's type at that moment
\* (None when there is none) written into the history.
AddTaskNoted ==
    \E id \in TaskIds, ty \in TaskTypes,
       cb \in {None} \cup {<<c>> : c \in Callbacks} :
        /\ add_task(id, ty, <<"p1">>, cb)
        /\ handler_at_add' =
               Append(handler_at_add,
                      IF ty \in DOMAIN task_handlers
                      THEN <<task_handlers[ty]>> ELSE None)

HandlerNext ==
    \/ RegisterTaskHandler
    \/ AddTaskNoted
    \/ RunStart
    \/ RunWake
    \/ stop
    \/ ExecuteTaskStart
    \/ HandlerReturns
    \/ CallbackReturns

\* The TaskRunner with the history of registrations at add_task kept.
HandlerSpec == RunnerInit /\ [][HandlerNext]_<<vars, mvars>>


\* ------------------------------------------------------------- properties
Objs == DOMAIN tasks

\* No two Task objects carry the same task_id.
UniqueIds ==
    \A i, j \in Objs : i # j => tasks[i].task_id # tasks[j].task_id

InQueue(i) == \E n \in 1..Len(task_queue) : task_queue[n] = i
InRunning(i) == \E id \in DOMAIN running_tasks : running_tasks[id] = i
InCompleted(i) == \E id \in DOMAIN completed_tasks : completed_tasks[id] = i

\* The task_id is held by one of the three containers.
IdExists(id) ==
    \/ id \in DOMAIN running_tasks
    \/ id \in DOMAIN completed_tasks
    \/ \E n \in 1..Len(task_queue) : tasks[task_queue[n]].task_id = id

\* execute_task has run to its end for Task i.
Finished(i) == pc[i] = "done"

CallbackIsQuiet(task) ==
    task.callback = None \/ ~Callables[task.callback[1]].raises

\* C1: with max_concurrent_tasks = K and unique task IDs, at most K tasks
\* have status RUNNING and running_tasks holds at most K tasks, in every
\* reachable state.
C1_AtMostK ==
    UniqueIds =>
        /\ Cardinality({i \in Objs : tasks[i].status = "RUNNING"})
               <= max_concurrent_tasks
        /\ Cardinality(DOMAIN running_tasks) <= max_concurrent_tasks

\* C2: a task with a unique ID and a registered handler reaches exactly one
\* of COMPLETED and FAILED and is never COMPLETED at one time and FAILED at
\* another. Stated here is what the claim says of every single step: no
\* step takes such a task from COMPLETED to FAILED or from FAILED to
\* COMPLETED.
C2_NeverBoth ==
    [][\A i \in Objs :
         (UniqueIds /\ tasks[i].task_type \in DOMAIN task_handlers) =>
             /\ ~(tasks[i].status = "COMPLETED"
                  /\ tasks'[i].status = "FAILED")
             /\ ~(tasks[i].status = "FAILED"
                  /\ tasks'[i].status = "COMPLETED")]_vars

\* C3: with unique task IDs every submitted task is in exactly one of
\* task_queue, running_tasks and completed_tasks, and get_task_status never
\* returns None for it.
C3_ExactlyOneContainer ==
    UniqueIds =>
        \A i \in Objs :
            /\ Cardinality({c \in {"queue", "running", "completed"} :
                   \/ c = "queue" /\ InQueue(i)
                   \/ c = "running" /\ InRunning(i)
                   \/ c = "completed" /\ InCompleted(i)}) = 1
            /\ get_task_status(tasks[i].task_id) # None

\* C4: add_task with a task ID that already exists in task_queue,
\* running_tasks or completed_tasks leaves the three containers unchanged.
C4_DuplicateRejected ==
    [][\A id \in TaskIds, ty \in TaskTypes, p \in Payloads,
          cb \in {None} \cup {<<c>> : c \in Callbacks} :
         (IdExists(id) /\ add_task(id, ty, p, cb)) =>
             UNCHANGED <<task_queue, running_tasks, completed_tasks>>]_vars

\* C5: get_task_result(id) is not None only if the task with that ID has
\* status COMPLETED.
C5_ResultOnlyIfCompleted ==
    UniqueIds =>
        \A id \in TaskIds :
            get_task_result(id) # None =>
                get_task_status(id) = <<"COMPLETED">>

\* C6: once a task's status is COMPLETED or FAILED it never changes again.
C6_TerminalIsFinal ==
    [][\A i \in Objs :
         tasks[i].status \in {"COMPLETED", "FAILED"} =>
             tasks'[i].status = tasks[i].status]_vars

\* C7: tasks are dequeued and started in the order of their add_task calls:
\* when a task added later has left task_queue, so has every task added
\* before it, and when it has been started, so has every task added before
\* it.
C7_Fifo ==
    \A i, j \in Objs :
        i < j =>
            /\ ~InQueue(j) => ~InQueue(i)
            /\ tasks[j].started_at => tasks[i].started_at

\* Two tasks were dispatched in one pass; the first has started, the second
\* has not yet.
C7_Witness ==
    \E i, j \in Objs :
        /\ i < j
        /\ tasks[i].started_at
        /\ pc[j] = "ready"

\* C8: when the handler found for a task returns normally and the task has
\* no callback or one that returns normally, then after execute_task the
\* task is in completed_tasks with status COMPLETED, get_task_status
\* returns COMPLETED and get_task_result returns what the handler returned,
\* for the echo handlers of the model the payload itself.
C8_HandlerResult ==
    UniqueIds =>
        \A i \in Objs :
            ( /\ Finished(i)
              /\ handler[i] # None
              /\ ~Callables[handler[i][1]].raises
              /\ CallbackIsQuiet(tasks[i]) ) =>
                /\ tasks[i].task_id \in DOMAIN completed_tasks
                /\ completed_tasks[tasks[i].task_id] = i
                /\ tasks[i].status = "COMPLETED"
                /\ get_task_status(tasks[i].task_id) = <<"COMPLETED">>
                /\ get_task_result(tasks[i].task_id) = tasks[i].payload

\* Both tasks ran an echo handler to its end, one of them asynchronous, one
\* with a callback.
C8_Witness ==
    /\ UniqueIds
    /\ Len(tasks) = 2
    /\ \A i \in Objs :
           /\ Finished(i)
           /\ handler[i] # None
           /\ ~Callables[handler[i][1]].raises
           /\ CallbackIsQuiet(tasks[i])
    /\ \E i \in Objs : Callables[handler[i][1]].async
    /\ \E i \in Objs : tasks[i].callback # None
    /\ tasks[1].payload # tasks[2].payload

\* C9: a task whose type has no registered handler when it is executed ends
\* with status COMPLETED, never FAILED, and its result is the default "no
\* handler" value carrying the payload.
C9_NoHandlerCompletes ==
    UniqueIds =>
        \A i \in Objs :
            (Finished(i) /\ handler[i] = None) =>
                /\ tasks[i].status = "COMPLETED"
                /\ tasks[i].result =
                       <<"No handler for", tasks[i].task_type>>
                           \o tasks[i].payload

\* C10: when a task's handler raises, the task ends FAILED with its error
\* set to the exception's description and completed_at set, its callback is
\* never invoked, execute_task ends normally, and the task has moved from
\* running_tasks to completed_tasks.
C10_HandlerRaises ==
    UniqueIds =>
        \A i \in Objs :
            ( /\ pc[i] \notin {"none", "ready", "handler"}
              /\ handler[i] # None
              /\ Callables[handler[i][1]].raises ) =>
                /\ Finished(i)
                /\ tasks[i].status = "FAILED"
                /\ tasks[i].error = <<handler[i][1]>>
                /\ tasks[i].completed_at
                /\ tasks[i].result = None
                /\ callback_calls[i] = 0
                /\ tasks[i].task_id \notin DOMAIN running_tasks
                /\ tasks[i].task_id \in DOMAIN completed_tasks
                /\ completed_tasks[tasks[i].task_id] = i

\* A task with a callback whose asynchronous handler raised, after it had
\* been in running_tasks.
C10_Witness ==
    /\ UniqueIds
    /\ \E i \in Objs :
           /\ Finished(i)
           /\ handler[i] = <<"aboom">>
           /\ tasks[i].callback # None
           /\ tasks[i].status = "FAILED"

\* stop() was called while the loop of run() sleeps at line 146.
StopSeen == run_pc = "sleeping" /\ ~_running

\* create_task was called for Task i and execute_task has not ended.
InFlight(i) == i \in Objs /\ pc[i] \in {"ready", "handler", "callback"}

IsPrefix(s, t) == Len(s) <= Len(t) /\ SubSeq(t, 1, Len(s)) = s

\* C11: after stop() is called while the run() loop is active, the loop
\* exits at its next iteration and dequeues no further task: no step takes
\* a task out of task_queue, the queued tasks stay PENDING, the next step
\* of the loop is its exit, and the loop does exit. Every task dispatched
\* before the stop is not cancelled: its execute_task runs to its end and
\* leaves the task COMPLETED or FAILED.
C11_StopHaltsDispatch ==
    /\ [][StopSeen =>
            /\ IsPrefix(task_queue, task_queue')
            /\ \A n \in 1..Len(task_queue) :
                   tasks'[task_queue[n]].status = "PENDING"
            /\ run_pc' # run_pc => run_pc' = "exited"]_vars
    /\ StopSeen ~> (run_pc = "exited")
    /\ \A i \in 1..MaxTasks :
           (StopSeen /\ InFlight(i)) ~>
               ( /\ i \in Objs
                 /\ Finished(i)
                 /\ tasks[i].status \in {"COMPLETED", "FAILED"} )

\* The loop has exited on stop() with a task left in the queue and a task
\* still in its handler or callback.
C11_Witness ==
    /\ run_pc = "exited"
    /\ ~_running
    /\ \E n \in 1..Len(task_queue) : tasks[task_queue[n]].status = "PENDING"
    /\ \E i \in Objs : pc[i] \in {"handler", "callback"}

\* This step ends Task i FAILED.
Fails(i) == tasks[i].status # "FAILED" /\ tasks'[i].status = "FAILED"

\* C12: a task ending FAILED, by its handler or its callback raising,
\* changes only its own fields and its own container membership. The step
\* leaves run() where it is and _running and task_queue as they are, leaves
\* every other task's fields (status, result, error and the rest) and
\* coroutine as they are and, with unique task IDs, every other task in the
\* containers it was in. Afterwards a task still waiting in task_queue of a
\* running loop is dispatched, unless stop() is called first.
C12_FailureIsIsolated ==
    /\ [][\A i \in Objs :
            Fails(i) =>
                /\ run_pc' = run_pc
                /\ _running' = _running
                /\ task_queue' = task_queue
                /\ \A j \in Objs \ {i} :
                       /\ tasks'[j] = tasks[j]
                       /\ pc'[j] = pc[j]
                       /\ UniqueIds =>
                              /\ InRunning(j)' = InRunning(j)
                              /\ InCompleted(j)' = InCompleted(j)]_vars
    /\ \A j \in 1..MaxTasks :
           ( /\ j \in Objs
             /\ InQueue(j)
             /\ run_pc = "sleeping"
             /\ _running
             /\ \E i \in Objs : Finished(i) /\ tasks[i].status = "FAILED" )
           ~> (~_running \/ (j \in Objs /\ ~InQueue(j)))

\* One task has ended FAILED; the loop is still running and another task
\* is RUNNING.
C12_Witness ==
    /\ run_pc = "sleeping"
    /\ _running
    /\ \E i, j \in Objs :
           /\ i # j
           /\ Finished(i)
           /\ tasks[i].status = "FAILED"
           /\ tasks[j].status = "RUNNING"

\* --------------------------------------------------- MemoryLink properties
mvars_all == <<vars, mvars>>

\* retrieve("a") at time t on a store holding only "a", stored at `created`
\* with ttl `ttl`.
RetrieveLone(created, ttl, t) ==
    retrieve(<<NewEntry(<<"a">>, <<"c">>, {}, Some(ttl), created)>>,
             EmptyDict, t, <<"a">>)

\* C13: retrieve(key) on an entry stored with ttl = t returns its value at
\* any time not later than created_at + t; at any later time it returns
\* absent and removes the entry, so that get_stats afterwards counts one
\* entry less in total_memories and does not count the key as active. Said
\* of every retrieve call of the model and of retrieve on a lone entry for
\* every created_at, ttl and time within the bounds.
C13_RetrieveHonoursTtl ==
    /\ [](\A created \in 0..MaxTime, ttl \in 0..MaxTTL,
             t \in 0..(MaxTime + MaxTTL + 1) :
             LET res == RetrieveLone(created, ttl, t)
             IN IF t <= created + ttl
                THEN res.r = Some(<<"c">>) /\ Len(res.m) = 1
                ELSE res.r = None /\ res.m = <<>>)
    /\ [][\A key \in Keys :
            ( /\ ret'.op = "retrieve"
              /\ Retrieve(key)
              /\ HasKey(memories, key)
              /\ EntryOf(memories, key).ttl # None ) =>
                LET entry == EntryOf(memories, key)
                    before == get_stats(memories, categories, max_entries,
                                        now)
                    after == get_stats(memories', categories', max_entries,
                                       now)
                IN IF now <= entry.created_at + entry.ttl[1]
                   THEN /\ ret'.val = Some(entry.value)
                        /\ HasKey(memories', key)
                        /\ after.total_memories = before.total_memories
                   ELSE /\ ret'.val = None
                        /\ ~HasKey(memories', key)
                        /\ after.total_memories = before.total_memories - 1
                        /\ after.active_memories = before.active_memories
                        /\ after.expired_memories
                               = before.expired_memories - 1]_mvars_all

\* retrieve has returned absent for a key and taken its expired entry out
\* of the store, where another entry remains.
C13_Witness ==
    /\ ret.op = "retrieve"
    /\ ret.val = None
    /\ ret.removed = {ret.arg}
    /\ memories # <<>>

\* C14: after any sequence of calls and clock advances, every key that
\* appears in a category's key list is a key of the primary mapping.
C14_IndexedKeysExist ==
    \A cat \in DOMAIN categories :
        \A n \in DOMAIN categories[cat] :
            HasKey(memories, categories[cat][n])

\* A call has taken a key out of the store and left a category's list
\* empty, while another category still lists a key.
C14_Witness ==
    /\ ret.removed # {}
    /\ \E cat \in DOMAIN categories : categories[cat] = <<>>
    /\ \E cat \in DOMAIN categories : categories[cat] # <<>>

\* The least number of entries at which store sweeps: 0.8 x max_entries,
\* rounded up.
SweepAt ==
    CHOOSE n \in 0..max_entries :
        /\ 10 * n >= max_entries * _cleanup_threshold_x10
        /\ \A m \in 0..(n - 1) : 10 * m < max_entries * _cleanup_threshold_x10

\* The store holds `count` entries, all of them stored with a ttl and all
\* expired, and this step stores one further entry without ttl.
StoresOneMoreAfter(count) ==
    /\ ret' # ret
    /\ Len(memories) = count
    /\ \A n \in DOMAIN memories :
           memories[n].ttl # None /\ is_expired(memories[n], now)
    /\ EntryOf(memories', ret'.arg).ttl = None

\* C15 as stated: with max_entries = 10 and threshold 0.8, after storing 7
\* entries with a ttl and letting them expire, storing one further entry
\* without ttl purges the expired entries and leaves exactly 1 entry.
C15_SevenThenOne ==
    [][StoresOneMoreAfter(7) => Len(memories') = 1]_mvars_all

\* C15 amended: with max_entries = 10 and threshold 0.8 the sweep starts at
\* 8 entries present. After storing 8 entries with a ttl and letting them
\* expire, storing one further entry without ttl purges all the expired
\* entries before the insertion and leaves exactly 1 entry; with fewer than
\* 8 entries present the store purges nothing.
C15_ThresholdThenOne ==
    [][/\ StoresOneMoreAfter(SweepAt) =>
              /\ Len(memories') = 1
              /\ ret'.removed = KeySetOf(memories)
       /\ \A count \in 0..(SweepAt - 1) :
              StoresOneMoreAfter(count) =>
                  /\ Len(memories') = count + 1
                  /\ ret'.removed = {}]_mvars_all

\* The ninth store has taken eight expired entries out and left its own.
C15_Witness ==
    /\ ret.op = "store"
    /\ Cardinality(ret.removed) = SweepAt
    /\ Len(memories) = 1
    /\ memories[1].ttl = None

\* The live entries of the store that match the query, as key/value pairs.
LiveMatches(query) ==
    { <<memories[n].key, memories[n].value>> :
        n \in { k \in DOMAIN memories :
                  /\ ~is_expired(memories[k], now)
                  /\ Matches(query, memories[k]) } }

\* C16: search(query) over the whole store never raises, whatever mix of
\* live and expired entries the store holds: it returns exactly the live
\* entries whose key or value contains the query, case-insensitively, and
\* removes every expired entry. Said of search called in any reachable
\* state.
C16_SearchNeverRaises ==
    \A query \in Queries :
        LET res == search(memories, categories, now, query, None)
        IN /\ ~res.r.raised
           /\ res.r.map = LiveMatches(query)
           /\ \A n \in DOMAIN memories :
                  is_expired(memories[n], now)
                      => ~HasKey(res.m, memories[n].key)

\* The keys indexed under a category; none for a category without index.
Listed(cats, cat) ==
    IF cat \in DOMAIN cats
    THEN {cats[cat][n] : n \in DOMAIN cats[cat]}
    ELSE {}

\* C17: with a category argument c, search and export_memories consider
\* only the keys indexed under c: every key they return is in c's key list,
\* and for a category without index the result is empty. Said of both
\* calls in any reachable state.
C17_CategoryRestricts ==
    \A cat \in CategoryNames :
        /\ \A query \in Queries :
               KeySet(search(memories, categories, now, query,
                             Some(cat)).r.map)
                   \subseteq Listed(categories, cat)
        /\ LET exported == export_memories(memories, categories, now,
                                           Some(cat))
           IN \A n \in DOMAIN exported :
                  exported[n].key[1] \in Listed(categories, cat)

\* C18: delete(key) on a key present returns true, removes the entry from
\* the primary mapping (and no other) and the key from every category key
\* list, so that retrieve(key) then returns absent; on a key not present it
\* returns false and changes nothing.
C18_DeleteScrubs ==
    [][\A key \in Keys :
          (ret'.op = "delete" /\ Delete(key)) =>
              IF HasKey(memories, key)
              THEN /\ ret'.val = TRUE
                   /\ memories' = DelEntry(memories, key)
                   /\ ~HasKey(memories', key)
                   /\ DOMAIN categories' = DOMAIN categories
                   /\ \A cat \in DOMAIN categories :
                          /\ ~InList(categories'[cat], key)
                          /\ Listed(categories', cat)
                                 = Listed(categories, cat) \ {key}
                   /\ retrieve(memories', categories', now, key).r = None
              ELSE /\ ret'.val = FALSE
                   /\ memories' = memories
                   /\ categories' = categories]_mvars_all

\* delete has returned true for a key and left the lists of two
\* categories empty.
C18_Witness ==
    /\ ret.op = "delete"
    /\ ret.val = TRUE
    /\ ret.removed = {ret.arg}
    /\ \E c1, c2 \in DOMAIN categories :
           c1 # c2 /\ categories[c1] = <<>> /\ categories[c2] = <<>>

\* C19: clear_category(c) deletes every key indexed under c from the
\* primary mapping (and no other key), removes c from the index and
\* returns the number of entries it deleted, 0 for a category without
\* index, which changes nothing; retrieve of a deleted key then returns
\* absent. In particular store(key, v, category = c) on a store where c
\* indexes no other key, followed by clear_category(c), returns 1.
C19_ClearCategory ==
    /\ [][\A cat \in CategoryNames :
            (ret'.op = "clear_category" /\ ClearCategory(cat)) =>
                /\ KeySetOf(memories')
                       = KeySetOf(memories) \ Listed(categories, cat)
                /\ cat \notin DOMAIN categories'
                /\ ret'.val = Cardinality(KeySetOf(memories)
                                              \ KeySetOf(memories'))
                /\ \A key \in Listed(categories, cat) :
                       retrieve(memories', categories', now, key).r = None
                /\ cat \notin DOMAIN categories =>
                       /\ ret'.val = 0
                       /\ memories' = memories
                       /\ categories' = categories]_mvars_all
    /\ [](\A cat \in CategoryNames, key \in Keys :
             Listed(categories, cat) \subseteq {key} =>
                 LET stored == store(memories, categories, max_entries, now,
                                     key, <<"c">>, Some(cat), {}, None)
                     cleared == clear_category(stored.m, stored.c, cat)
                 IN /\ cleared.r = 1
                    /\ retrieve(cleared.m, cleared.c, now, key).r = None)

\* clear_category has deleted the two entries of a category and removed
\* the category from the index.
C19_Witness ==
    /\ ret.op = "clear_category"
    /\ ret.val = 2
    /\ Cardinality(ret.removed) = 2
    /\ ret.arg \notin DOMAIN categories

\* The live key/value pairs of a store at the current time.
LivePairs(mem) ==
    { <<mem[n].key, mem[n].value>> :
        n \in {k \in DOMAIN mem : ~is_expired(mem[k], now)} }

\* C20: importing the output of export_memories(), into the same store or
\* into an empty one, yields a store whose live key/value pairs are exactly
\* those of the exporting store, each entry carrying the metadata and ttl
\* of its exported record and of the entry exported, and import_memories
\* returns the number of exported records. Said of export in any reachable
\* state.
C20_RoundTrip ==
    LET exported == export_memories(memories, categories, now, None)
        same == import_memories(memories, categories, max_entries, now,
                                exported)
        empty == import_memories(<<>>, EmptyDict, max_entries, now, exported)
    IN \A res \in {same, empty} :
           /\ res.r = Len(exported)
           /\ LivePairs(res.m) = LivePairs(memories)
           /\ \A n \in DOMAIN exported :
                  LET key == exported[n].key[1]
                  IN /\ HasKey(res.m, key)
                     /\ Some(EntryOf(res.m, key).metadata)
                            = exported[n].metadata
                     /\ EntryOf(res.m, key).ttl = exported[n].ttl
                     /\ EntryOf(res.m, key).metadata
                            = EntryOf(memories, key).metadata
                     /\ EntryOf(res.m, key).ttl = EntryOf(memories, key).ttl

\* The store has imported its own export of two records after the clock
\* moved: an entry with metadata and a ttl has been stored anew.
C20_Witness ==
    /\ ret.op = "import_exported"
    /\ ret.val = 2
    /\ \E n \in DOMAIN memories :
           /\ memories[n].metadata # {}
           /\ memories[n].ttl # None
           /\ memories[n].created_at = now
           /\ now > 0

\* The entries of a store other than the one of `key`, in order.
Others(mem, key) ==
    LET Other(e) == e.key # key IN SelectSeq(mem, Other)

\* C21: update(key, value) returns false and leaves no entry for key when
\* key is absent or expired, an expired entry being removed from the
\* mapping and from all category lists; otherwise it returns true,
\* replaces the value and leaves access_count, created_at, ttl and the
\* category lists as they are. The other entries stay as they are in both
\* cases. Said of update called in any reachable state.
C21_UpdateOrFalse ==
    \A key \in Keys, content \in UpdateContents :
        LET res == update(memories, categories, now, key, content.value,
                          content.metadata)
        IN /\ Others(res.m, key) = Others(memories, key)
           /\ IF ~HasKey(memories, key)
                 \/ is_expired(EntryOf(memories, key), now)
              THEN /\ res.r = FALSE
                   /\ ~HasKey(res.m, key)
                   /\ DOMAIN res.c = DOMAIN categories
                   /\ \A cat \in DOMAIN categories :
                          /\ ~InList(res.c[cat], key)
                          /\ Listed(res.c, cat)
                                 = Listed(categories, cat) \ {key}
              ELSE LET old == EntryOf(memories, key)
                       new == EntryOf(res.m, key)
                   IN /\ res.r = TRUE
                      /\ HasKey(res.m, key)
                      /\ new.value = content.value
                      /\ new.access_count = old.access_count
                      /\ new.created_at = old.created_at
                      /\ new.ttl = old.ttl
                      /\ res.c = categories

\* update has returned false for a key whose expired entry was listed in a
\* category, and has taken it out of the store and of the list.
C21_Witness ==
    /\ ret.op = "update"
    /\ ret.val = FALSE
    /\ ret.removed = {ret.arg}
    /\ \E cat \in DOMAIN categories : categories[cat] = <<>>

\* access_count of `key` in a store, 0 when the key is not there.
CountOf(mem, key) ==
    IF HasKey(mem, key) THEN EntryOf(mem, key).access_count ELSE 0

\* A read went from store `mem` to store `after` and returned the keys
\* `returned`: each returned entry was counted once, and no other entry
\* still in the store was counted.
CountedOnce(mem, after, returned) ==
    \A n \in DOMAIN after :
        LET key == after[n].key
        IN after[n].access_count
               = CountOf(mem, key) + (IF key \in returned THEN 1 ELSE 0)

\* Each read, called in the current state, counts the entries it returns
\* once and no other.
ReadsCountOnce ==
    /\ \A key \in Keys :
           LET res == retrieve(memories, categories, now, key)
           IN CountedOnce(memories, res.m,
                          IF res.r = None THEN {} ELSE {key})
    /\ \A cat \in CategoryNames :
           LET res == retrieve_by_category(memories, categories, now, cat)
           IN CountedOnce(memories, res.m, KeySet(res.r))
    /\ \A query \in Queries, category \in OptionalCategories :
           LET res == search(memories, categories, now, query, category)
           IN CountedOnce(memories, res.m, KeySet(res.r.map))

\* The last call, if this step is a call, is store or import_memories.
StoresAnew == ret'.op \in {"store", "import_memories", "import_exported"}

\* C22: every read that returns an entry increments that entry's
\* access_count by exactly 1: a successful retrieve, each key returned by
\* retrieve_by_category and each key returned by search; a read that
\* returns absent for a key and a search that does not return an entry
\* leave its access_count unchanged; and no step lowers the access_count
\* of an entry except by storing the key anew or removing it. The reads
\* are said of any reachable state.
C22_ReadsCountOnce ==
    /\ []ReadsCountOnce
    /\ [][\A n \in DOMAIN memories :
            (HasKey(memories', memories[n].key) /\ ~StoresAnew)
                => CountOf(memories', memories[n].key)
                       >= memories[n].access_count]_mvars_all

\* The keys of the entries of a store that are not expired now.
LiveKeys(mem) == {mem[n].key : n \in {k \in DOMAIN mem : ~is_expired(mem[k], now)}}

\* export_memories() called in the current state: one record, with
\* expired = false and the entry's fields, for each live entry and no
\* other.
ExportsLiveOnly ==
    LET exported == export_memories(memories, categories, now, None)
    IN /\ {exported[n].key : n \in DOMAIN exported}
              = {Some(key) : key \in LiveKeys(memories)}
       /\ Len(exported) = Cardinality(LiveKeys(memories))
       /\ \A n \in DOMAIN exported :
              /\ exported[n].expired = FALSE
              /\ exported[n] = to_dict(EntryOf(memories, exported[n].key[1]),
                                       now)

\* C23: export_memories() returns one record for each entry that is
\* present and not expired at call time and no record for an expired
\* entry, every record has expired = false, and the call changes neither
\* the primary mapping, the category index nor any access_count.
C23_ExportLiveOnly ==
    /\ []ExportsLiveOnly
    /\ [][(ret'.op = "export_memories" /\ ExportMemoriesCall) =>
              /\ memories' = memories
              /\ categories' = categories]_mvars_all

\* export_memories has been called on a store that holds an expired entry
\* beside a live one.
C23_Witness ==
    /\ ret.op = "export_memories"
    /\ \E n \in DOMAIN memories : is_expired(memories[n], now)
    /\ \E n \in DOMAIN memories : ~is_expired(memories[n], now)

\* The record has a key and a value.
WellFormed(memory_data) == memory_data.key # None /\ memory_data.value # None

\* C24: import_memories never aborts on a record that misses its key or
\* its value: the batch leaves the store that its well-formed records
\* alone, in their order, would leave, each key of a well-formed record
\* holding the value of the last such record; a malformed record on its
\* own leaves the store unchanged; and the count returned is the number of
\* well-formed records. Said of import_memories called in any reachable
\* state.
C24_ImportSkipsMalformed ==
    \A memories_data \in ImportBatches :
        LET res == import_memories(memories, categories, max_entries, now,
                                   memories_data)
            good == SelectSeq(memories_data, WellFormed)
            only == import_memories(memories, categories, max_entries, now,
                                    good)
        IN /\ res.r = Len(good)
           /\ res.m = only.m
           /\ res.c = only.c
           /\ \A n \in DOMAIN good :
                  (\A k \in (n + 1)..Len(good) : good[k].key # good[n].key)
                      => /\ HasKey(res.m, good[n].key[1])
                         /\ Some(EntryOf(res.m, good[n].key[1]).value)
                                = good[n].value
           /\ \A n \in DOMAIN memories_data :
                  ~WellFormed(memories_data[n]) =>
                      import_memories(memories, categories, max_entries, now,
                                      <<memories_data[n]>>)
                          = [m |-> memories, c |-> categories, r |-> 0]

\* import_memories was given two records, one of them malformed, and has
\* stored the other.
C24_Witness ==
    /\ ret.op = "import_memories"
    /\ ret.arg = 2
    /\ ret.val = 1
    /\ memories # <<>>


gvars_all == <<vars, mvars, gvars>>

\* C25: get_memory_link(owner) returns the same MemoryLink, with the same
\* entries and the same max_entries, on every call for an owner the manager
\* holds, whatever max_entries the call names; no call other than
\* cleanup_agent_memory(owner) takes an owner's MemoryLink out of the manager
\* or replaces it; cleanup_agent_memory(owner) returns true exactly when the
\* owner was held, and the next get_memory_link(owner) then yields a new,
\* empty MemoryLink with the max_entries of that call.
SameLinkUntilCleanup ==
    /\ \A agent_id \in DOMAIN agent_memories :
           ~(got'.op = "cleanup_agent_memory" /\ CleanupAgentMemory(agent_id))
               => /\ agent_id \in DOMAIN agent_memories'
                  /\ agent_memories'[agent_id] = agent_memories[agent_id]
    /\ \A agent_id \in AgentIds, maxe \in 1..MaxEntriesBound :
           (got'.op = "get_memory_link" /\ GetMemoryLink(agent_id, maxe))
               => IF agent_id \in DOMAIN agent_memories
                  THEN /\ got'.val = agent_memories[agent_id]
                       /\ links'[got'.val] = links[got'.val]
                       /\ UNCHANGED <<agent_memories, links>>
                  ELSE /\ got'.val \notin DOMAIN links
                       /\ links'[got'.val] = MemoryLink(agent_id, maxe)
                       /\ agent_memories'[agent_id] = got'.val
                       /\ \A link \in DOMAIN links : links'[link] = links[link]
    /\ \A agent_id \in AgentIds :
           (got'.op = "cleanup_agent_memory" /\ CleanupAgentMemory(agent_id))
               => /\ got'.val = (IF agent_id \in DOMAIN agent_memories
                                 THEN 1 ELSE 0)
                  /\ agent_id \notin DOMAIN agent_memories'
                  /\ \A other \in DOMAIN agent_memories \ {agent_id} :
                         /\ other \in DOMAIN agent_memories'
                         /\ agent_memories'[other] = agent_memories[other]
                  /\ UNCHANGED links
                  /\ \A maxe \in 1..MaxEntriesBound :
                         LET res == get_memory_link(agent_memories', links',
                                                    agent_id, maxe)
                         IN /\ res.r \notin DOMAIN links'
                            /\ res.l[res.r] = MemoryLink(agent_id, maxe)

C25_SameLinkUntilCleanup == [][SameLinkUntilCleanup]_gvars_all

\* An owner's MemoryLink that holds entries is returned again by a call that
\* names another max_entries, after another owner's MemoryLink was cleaned up
\* and made anew.
C25_Witness ==
    /\ got.op = "get_memory_link"
    /\ links[got.val].memories # <<>>
    /\ links[got.val].max_entries # got.arg
    /\ Len(links) = MaxLinks


\* C26: in every reachable state of a MemoryLink a key is in the key list of
\* at most one category.
C26_OneCategoryPerKey ==
    \A key \in Keys :
        \A c1 \in DOMAIN categories, c2 \in DOMAIN categories :
            (InList(categories[c1], key) /\ InList(categories[c2], key))
                => c1 = c2


\* C27: get_stats() leaves the primary mapping, the category index and every
\* entry's fields as they are, expired entries included, and in every state
\* its figures are: total_memories the number of entries present,
\* expired_memories the number of present entries expired at the call, and
\* active_memories their difference, the number of live entries.
StatsFigures ==
    LET stats == get_stats(memories, categories, max_entries, now)
    IN /\ stats.total_memories = Cardinality(KeySetOf(memories))
       /\ stats.expired_memories
              = Cardinality(KeySetOf(memories) \ LiveKeys(memories))
       /\ stats.active_memories
              = stats.total_memories - stats.expired_memories
       /\ stats.active_memories = Cardinality(LiveKeys(memories))

StatsFrame ==
    (ret'.op = "get_stats" /\ GetStats)
        => /\ memories' = memories
           /\ categories' = categories
           /\ ret'.removed = {}
           /\ get_stats(memories', categories', max_entries', now')
                  = get_stats(memories, categories, max_entries, now)

C27_StatsSnapshot == []StatsFigures /\ [][StatsFrame]_mvars_all

\* get_stats() has been called on a store that holds an expired entry, which
\* is still there.
C27_Witness ==
    /\ ret.op = "get_stats"
    /\ KeySetOf(memories) \ LiveKeys(memories) # {}
    /\ LiveKeys(memories) # {}


\* C28: a store called while the number of entries present is at least
\* _cleanup_threshold x max_entries removes every entry expired at that
\* moment from the primary mapping and from all category lists, and then
\* inserts the new entry (so the stored key is afterwards a fresh entry,
\* listed at most under the category of the call) and keeps every live
\* entry; a store called below that threshold removes no entry and takes no
\* key out of a list.
StoreSweeps(key, content, category, ttl) ==
    LET res == store(memories, categories, max_entries, now, key,
                     content.value, category, content.metadata, ttl)
        expired == KeySetOf(memories) \ LiveKeys(memories)
    IN /\ HasKey(res.m, key)
       /\ EntryOf(res.m, key) = NewEntry(key, content.value, content.metadata,
                                         ttl, now)
       /\ IF 10 * Len(memories) >= max_entries * _cleanup_threshold_x10
          THEN /\ \A k \in expired \ {key} : ~HasKey(res.m, k)
               /\ \A k \in expired : \A c \in DOMAIN res.c :
                      InList(res.c[c], k) => (k = key /\ category = Some(c))
               /\ \A k \in LiveKeys(memories) \ {key} :
                      /\ HasKey(res.m, k)
                      /\ EntryOf(res.m, k) = EntryOf(memories, k)
          ELSE /\ \A k \in KeySetOf(memories) \ {key} :
                      /\ HasKey(res.m, k)
                      /\ EntryOf(res.m, k) = EntryOf(memories, k)
               /\ \A c \in DOMAIN categories :
                      /\ c \in DOMAIN res.c
                      /\ \A k \in Keys :
                             InList(categories[c], k) => InList(res.c[c], k)

C28_StoreSweepsAtThreshold ==
    \A key \in Keys, content \in StoreContents,
       category \in OptionalCategories, ttl \in TTLs :
        StoreSweeps(key, content, category, ttl)

\* A store has swept an expired entry of another key out of the store.
C28_Witness ==
    /\ ret.op = "store"
    /\ ret.removed # {}
    /\ HasKey(memories, ret.arg)


\* C29: search(query, category=c) on an indexed category c returns every
\* live entry listed under c whose key or value contains the query, and
\* removes every expired entry listed under c, wherever the expired entries
\* stand in c's key list.
SearchScansWholeList(query, cat) ==
    LET res == search(memories, categories, now, query, Some(cat))
        listed == Listed(categories, cat) \cap KeySetOf(memories)
    IN /\ ~res.r.raised
       /\ res.r.map = { pair \in LiveMatches(query) : pair[1] \in listed }
       /\ \A key \in listed :
              is_expired(EntryOf(memories, key), now) => ~HasKey(res.m, key)

C29_SearchScansWholeList ==
    \A cat \in DOMAIN categories : \A query \in Queries :
        SearchScansWholeList(query, cat)


\* C30: the number of entries in the primary mapping of a MemoryLink never
\* exceeds its max_entries.
C30_CapacityBound == Len(memories) <= max_entries


\* C31: register_task_handler replaces any earlier handler of the type and
\* touches no task; execute_task takes the handler registered for the task's
\* type at the step where it starts (none before that step, and the default
\* result when the type has none then); the handler taken stays the task's
\* handler whatever is registered afterwards, and the task's result or error
\* is the outcome of that handler on the task's payload.
RegistrationReplaces ==
    \A ty \in RegisteredTypes, h \in Handlers :
        register_task_handler(ty, h)
            => /\ ty \in DOMAIN task_handlers'
               /\ task_handlers'[ty] = h
               /\ \A other \in DOMAIN task_handlers \ {ty} :
                      /\ other \in DOMAIN task_handlers'
                      /\ task_handlers'[other] = task_handlers[other]
               /\ UNCHANGED <<tasks, handler, pc>>

HandlerTakenAtStart ==
    ExecuteTaskStart
        => LET i == Head(spawned)
               ty == tasks[i].task_type
           IN /\ handler[i] = None
              /\ IF ty \in DOMAIN task_handlers
                 THEN handler'[i] = <<task_handlers[ty]>>
                 ELSE /\ handler'[i] = None
                      /\ tasks'[i].result = NoHandlerResult(tasks[i])

HandlerStays ==
    \A i \in DOMAIN handler : handler[i] # None => handler'[i] = handler[i]

HandlerDecides ==
    \A i \in Objs :
        /\ pc[i] \in {"none", "ready"} => handler[i] = None
        /\ (pc[i] \in {"callback", "done"} /\ handler[i] # None)
               => LET outcome == Outcome(handler[i][1], tasks[i].payload)
                  IN IF outcome.kind = "raise"
                     THEN /\ tasks[i].status = "FAILED"
                          /\ tasks[i].error = outcome.error
                          /\ tasks[i].result = None
                     ELSE tasks[i].result = outcome.value

C31_HandlerAtExecution ==
    /\ []HandlerDecides
    /\ [][RegistrationReplaces /\ HandlerTakenAtStart /\ HandlerStays]_vars

\* A task submitted while its type had a handler that returns has failed
\* with the error of the handler that replaced it before the task started,
\* and the type's handler has been replaced once more since.
C31_Witness ==
    \E i \in Objs :
        /\ Finished(i)
        /\ handler_at_add[i] = <<"echo">>
        /\ handler[i] = <<"boom">>
        /\ tasks[i].status = "FAILED"
        /\ tasks[i].error = <<"boom">>
        /\ tasks[i].task_type \in DOMAIN task_handlers
        /\ task_handlers[tasks[i].task_type] = "aecho"


\* The entries of `after` were in `before` with the same created_at and
\* ttl, and so are expired at the same times.
Times == 0..(MaxTime + MaxTTL)

SameLifetime(before, after) ==
    \A key \in KeySetOf(after) :
        /\ HasKey(before, key)
        /\ EntryOf(after, key).created_at = EntryOf(before, key).created_at
        /\ EntryOf(after, key).ttl = EntryOf(before, key).ttl
        /\ \A t \in Times : is_expired(EntryOf(after, key), t)
                                = is_expired(EntryOf(before, key), t)

\* C32, the calls: in any state, update, retrieve, retrieve_by_category and
\* search leave created_at and ttl of every entry they keep as they were;
\* store(key) makes an entry with created_at = now and access_count = 0,
\* which is expired exactly past now + ttl; import_memories does so for the
\* keys of its well-formed records and leaves the lifetime of the others.
LifetimeSetByStoreOnly ==
    /\ \A key \in Keys :
           /\ SameLifetime(memories,
                           retrieve(memories, categories, now, key).m)
           /\ \A content \in UpdateContents :
                  SameLifetime(memories,
                               update(memories, categories, now, key,
                                      content.value, content.metadata).m)
           /\ \A content \in StoreContents, category \in OptionalCategories,
                 ttl \in TTLs :
                  LET entry == EntryOf(store(memories, categories, max_entries,
                                             now, key, content.value, category,
                                             content.metadata, ttl).m, key)
                  IN /\ entry.created_at = now
                     /\ entry.access_count = 0
                     /\ entry.ttl = ttl
                     /\ \A t \in Times :
                            is_expired(entry, t)
                                <=> (ttl # None /\ t > now + ttl[1])
    /\ \A category \in CategoryNames :
           SameLifetime(memories,
                        retrieve_by_category(memories, categories, now,
                                             category).m)
    /\ \A query \in Queries, category \in OptionalCategories :
           SameLifetime(memories,
                        search(memories, categories, now, query, category).m)
    /\ \A memories_data \in ImportBatches :
           LET res == import_memories(memories, categories, max_entries, now,
                                      memories_data)
               stored == {memories_data[n].key[1] :
                              n \in {k \in DOMAIN memories_data :
                                         WellFormed(memories_data[k])}}
           IN /\ \A key \in stored :
                     /\ EntryOf(res.m, key).created_at = now
                     /\ EntryOf(res.m, key).access_count = 0
              /\ SameLifetime(memories,
                              SelectSeq(res.m,
                                        LAMBDA e : e.key \notin stored))

\* C32, the steps: an entry that is in the store before and after a step has
\* its created_at or ttl changed, or its access_count lowered, only by a
\* store of its key or an import, and then it is a new entry: created_at is
\* the time of the call and access_count is 0.
LifetimeStep ==
    \A key \in KeySetOf(memories) \cap KeySetOf(memories') :
        LET old == EntryOf(memories, key)
            new == EntryOf(memories', key)
        IN (\/ new.created_at # old.created_at
            \/ new.ttl # old.ttl
            \/ new.access_count < old.access_count)
               => /\ StoresAnew
                  /\ ret'.op = "store" => ret'.arg = key
                  /\ new.created_at = now
                  /\ new.access_count = 0

\* C32: only store, directly or through import_memories, sets created_at;
\* reads and updates leave an entry's lifetime, which ends once the clock
\* passes its created_at + ttl, while storing the key again restarts it and
\* resets access_count.
C32_LifetimeSetByStoreOnly ==
    []LifetimeSetByStoreOnly /\ [][LifetimeStep]_mvars_all

\* An entry stored with ttl 0 was read and then updated, and is expired now
\* that the clock has passed its created_at.
C32_Witness ==
    /\ ret.op = "update"
    /\ ret.val = TRUE
    /\ HasKey(memories, ret.arg)
    /\ LET entry == EntryOf(memories, ret.arg)
       IN /\ entry.ttl = <<0>>
          /\ entry.access_count > 0
          /\ entry.created_at < now
          /\ is_expired(entry, now)

====
